---- MODULE Spec2Model ----
(***************************************************************************)
(* Model of the COVID-19 detection repository: the transfer-learning       *)
(* model (covid19/models/_resnet50.py), the custom network                 *)
(* (covid19/models/_covidnet.py), the pretraining entry point              *)
(* (scripts/pretrain.py) and the learning-curve plots                      *)
(* (covid19/metrics/training.py).                                          *)
(***************************************************************************)
EXTENDS Integers, Sequences, FiniteSets, TLC

(***************************************************************************)
(* Bounds of the model.                                                    *)
(***************************************************************************)
\* fine_tune_at ranges over -MaxOver .. NLayers + MaxOver
MaxOver == 1
\* number of epochs one compile_and_fit run goes through
Epochs == 2

(***************************************************************************)
(* ResNet50 (transfer-learning model)                                      *)
(***************************************************************************)
VARIABLES
    weights,              \* constructor argument: "None", "imagenet" or "path"
    from_scratch,         \* self._from_scratch
    fe_trainable,         \* self.feature_extractor.trainable
    layer_trainable,      \* layer.trainable of every feature_extractor.layers[i]
    classifier_trainable, \* self.classifier.trainable
    active,               \* a training-phase method is executing
    method,               \* the method executing, or the last one that executed
    ip,                   \* index of the next statement of the method's body
    fine_tune_at,         \* argument of the current / last fine_tune call
    pre_config,           \* trainable configuration when the method was entered
    fitting,              \* compile_and_fit is running
    fit_started,          \* compile_and_fit was invoked by the current / last method
    fit_config,           \* trainable configuration when compile_and_fit started
    epoch,                \* epochs completed by the running compile_and_fit
    raised,               \* exception raised by the current / last method
    call_training,        \* training argument of the last call()
    fe_training           \* training argument the last call() gave the feature extractor

rvars == <<weights, from_scratch, fe_trainable, layer_trainable, classifier_trainable,
           active, method, ip, fine_tune_at, pre_config, fitting, fit_started,
           fit_config, epoch, raised, call_training, fe_training>>

(***************************************************************************)
(* COVIDNet and get_model: state                                           *)
(***************************************************************************)
VARIABLES
    model,            \* the model object constructed last
    via,              \* how it was constructed: "COVIDNet", "get_model" or "none"
    weights_arg,      \* the weights argument the constructor received
    architecture,     \* the architecture argument of get_model
    n_classes,        \* dataset_info['n_classes'] given to get_model
    weights_loaded,   \* get_model loaded the weights at model_path
    batch,            \* batch size N of the last forward pass
    output_shape,     \* shape of the output of the last forward pass
    m_call_training,  \* training argument of the last forward pass
    m_fe_training,    \* training argument it gave the feature extractor
    block             \* the last _COVIDNetBlock constructed and called on its own

cvars == <<model, via, weights_arg, architecture, n_classes, weights_loaded, batch, output_shape,
           m_call_training, m_fe_training, block>>

(***************************************************************************)
(* get_class_weights: state                                                *)
(***************************************************************************)
VARIABLES
    train_ds_info,    \* metadata of the training set: n_images, n_classes,
                      \* class_labels (the label indices) and labels (per image)
    class_weights,    \* the dictionary get_class_weights returned
    w_raised,         \* the exception get_class_weights raised
    w_done            \* get_class_weights has run

wvars == <<train_ds_info, class_weights, w_raised, w_done>>

(***************************************************************************)
(* scripts/pretrain.py main: state                                         *)
(***************************************************************************)
VARIABLES
    args,             \* parsed command line: architecture, class_weights, load_model
    data,             \* what the dataset path holds
    fs,               \* the output tree: every path is "absent", a "dir", an "old"
                      \* file (there before the run) or a "new" file (written by it)
    fs0,              \* the output tree when the run started
    pc,               \* the statement of main to execute next
    m_raised,         \* the exception that ended the run
    datasets_loaded,  \* image_dataset_from_directory was called
    main_epoch,       \* epochs the training has completed
    checkpoints,      \* epochs whose checkpoint ModelCheckpoint wrote
    plots             \* metrics whose learning curve was written under training/

mvars == <<args, data, fs, fs0, pc, m_raised, datasets_loaded, main_epoch,
           checkpoints, plots>>

(***************************************************************************)
(* plot_learning_curves: state                                             *)
(***************************************************************************)
VARIABLES
    history,          \* history.history: for every metric the list of its values
    history_epoch,    \* history.epoch: the indices of the epochs of history
    history_ft,       \* history_ft.history, when history_ft is given
    ft_given,         \* history_ft is not None
    save_path,        \* the save_path argument: "None" or "path"
    history0,         \* history.history before the first call
    history_ft0,      \* history_ft.history before the first call
    curves,           \* the curves the last call plotted, per metric
    first_curves,     \* the curves the first call plotted
    n_plots,          \* calls of plot_learning_curves made with these arguments
    p_raised          \* the exception the last call raised

pvars == <<history, history_epoch, history_ft, ft_given, save_path, history0,
           history_ft0, curves, first_curves, n_plots, p_raised>>

\* the variables of the other components
notR == <<cvars, wvars, mvars, pvars>>
notC == <<rvars, wvars, mvars, pvars>>
notW == <<rvars, cvars, mvars, pvars>>
notP == <<rvars, cvars, wvars, mvars>>

\* feature_extractor = Sequential([Rescaling, ResNet50V2]): two layers
NLayers == 2
LayerIdx == 0 .. (NLayers - 1)

WeightsArgs == {"None", "imagenet", "path"}
TrainingArgs == {"None", "True", "False"}
FineTuneAtArgs == (0 - MaxOver) .. (NLayers + MaxOver)

\* the trainable/frozen status of every sub-network and layer
Config == [fe |-> fe_trainable, layers |-> layer_trainable, cls |-> classifier_trainable]

\* self._from_scratch = weights is None
FromScratch(w) == w = "None"

\* training=False if self._from_scratch else training
FeatureExtractorTraining(scratch, training) == IF scratch THEN "False" ELSE training

\* feature_extractor.trainable = v: Keras sets the flag on the container and on
\* every layer nested in it
SetTrainable(v) == [fe |-> v, layers |-> [i \in LayerIdx |-> v]]

\* Python's stop index of the slice layers[:m] of a list of n elements
SliceStop(m, n) == IF m < 0 THEN (IF n + m < 0 THEN 0 ELSE n + m)
                   ELSE (IF m > n THEN n ELSE m)

\* mutant: the slice also takes the layer at the split index
FreezeBottomLayers_OffByOne(layers, m) ==
    [i \in LayerIdx |-> IF i <= SliceStop(m, NLayers) THEN FALSE ELSE layers[i]]

\* for layer in feature_extractor.layers[:fine_tune_at]: layer.trainable = False
FreezeBottomLayers(layers, m) ==
    [i \in LayerIdx |-> IF i < SliceStop(m, NLayers) THEN FALSE ELSE layers[i]]

\* mutant: the range check lets the first out-of-range index through
TooBigFineTuneAt_OffByOne(m) == m > NLayers + 1

\* if fine_tune_at > len(self.feature_extractor.layers)
TooBigFineTuneAt(m) == m > NLayers

\* mutant: the backbone is not frozen before the fit
FitLinearClassifierBody_NoFreeze == <<"compile_and_fit">>

\* the statements of fit_linear_classifier, in program order
FitLinearClassifierBody == <<"freeze", "compile_and_fit">>

\* mutant: the bottom layers are frozen only after the fit
FineTuneBody_FitFirst == <<"check", "unfreeze", "compile_and_fit", "freeze_bottom">>

\* the statements of fine_tune, in program order
FineTuneBody == <<"check", "unfreeze", "freeze_bottom", "compile_and_fit">>

Body(m) == IF m = "fit_linear_classifier" THEN FitLinearClassifierBody
           ELSE IF m = "fine_tune" THEN FineTuneBody
           ELSE << >>

\* the statement the executing method is at
Stmt == IF active /\ ip <= Len(Body(method)) THEN Body(method)[ip] ELSE "return"

RInit ==
    /\ weights \in WeightsArgs
    /\ from_scratch = FromScratch(weights)
    /\ fe_trainable = TRUE
    /\ layer_trainable = [i \in LayerIdx |-> TRUE]
    /\ classifier_trainable = TRUE
    /\ active = FALSE
    /\ method = "none"
    /\ ip = 1
    /\ fine_tune_at = 0
    /\ pre_config = [fe |-> TRUE, layers |-> [i \in LayerIdx |-> TRUE], cls |-> TRUE]
    /\ fitting = FALSE
    /\ fit_started = FALSE
    /\ fit_config = [fe |-> TRUE, layers |-> [i \in LayerIdx |-> TRUE], cls |-> TRUE]
    /\ epoch = 0
    /\ raised = "none"
    /\ call_training = "unset"
    /\ fe_training = "unset"

\* ResNet50.call(inputs, training)
call(training) ==
    /\ ~active
    /\ call_training' = training
    /\ fe_training' = FeatureExtractorTraining(from_scratch, training)
    /\ UNCHANGED <<weights, from_scratch, fe_trainable, layer_trainable,
                   classifier_trainable, active, method, ip, fine_tune_at, pre_config,
                   fitting, fit_started, fit_config, epoch, raised>>
    /\ UNCHANGED notR

\* a caller invokes fit_linear_classifier(...)
fit_linear_classifier ==
    /\ ~active
    /\ active' = TRUE
    /\ method' = "fit_linear_classifier"
    /\ ip' = 1
    /\ pre_config' = Config
    /\ fit_started' = FALSE
    /\ raised' = "none"
    /\ UNCHANGED <<weights, from_scratch, fe_trainable, layer_trainable,
                   classifier_trainable, fine_tune_at, fitting, fit_config, epoch,
                   call_training, fe_training>>
    /\ UNCHANGED notR

\* a caller invokes fine_tune(..., fine_tune_at)
fine_tune(at) ==
    /\ ~active
    /\ active' = TRUE
    /\ method' = "fine_tune"
    /\ ip' = 1
    /\ fine_tune_at' = at
    /\ pre_config' = Config
    /\ fit_started' = FALSE
    /\ raised' = "none"
    /\ UNCHANGED <<weights, from_scratch, fe_trainable, layer_trainable,
                   classifier_trainable, fitting, fit_config, epoch, call_training,
                   fe_training>>
    /\ UNCHANGED notR

\* self.feature_extractor.trainable = False
Freeze ==
    /\ Stmt = "freeze"
    /\ fe_trainable' = SetTrainable(FALSE).fe
    /\ layer_trainable' = SetTrainable(FALSE).layers
    /\ ip' = ip + 1
    /\ UNCHANGED <<weights, from_scratch, classifier_trainable, active, method,
                   fine_tune_at, pre_config, fitting, fit_started, fit_config, epoch,
                   raised, call_training, fe_training>>
    /\ UNCHANGED notR

\* if fine_tune_at > len(...): raise ValueError(...)
CheckFineTuneAt ==
    /\ Stmt = "check"
    /\ IF TooBigFineTuneAt(fine_tune_at)
       THEN /\ raised' = "ValueError"
            /\ active' = FALSE
            /\ ip' = ip
       ELSE /\ raised' = raised
            /\ active' = active
            /\ ip' = ip + 1
    /\ UNCHANGED <<weights, from_scratch, fe_trainable, layer_trainable,
                   classifier_trainable, method, fine_tune_at, pre_config, fitting,
                   fit_started, fit_config, epoch, call_training, fe_training>>
    /\ UNCHANGED notR

\* self.feature_extractor.trainable = True
Unfreeze ==
    /\ Stmt = "unfreeze"
    /\ fe_trainable' = SetTrainable(TRUE).fe
    /\ layer_trainable' = SetTrainable(TRUE).layers
    /\ ip' = ip + 1
    /\ UNCHANGED <<weights, from_scratch, classifier_trainable, active, method,
                   fine_tune_at, pre_config, fitting, fit_started, fit_config, epoch,
                   raised, call_training, fe_training>>
    /\ UNCHANGED notR

\* the loop freezing the bottom layers
FreezeBottom ==
    /\ Stmt = "freeze_bottom"
    /\ layer_trainable' = FreezeBottomLayers(layer_trainable, fine_tune_at)
    /\ ip' = ip + 1
    /\ UNCHANGED <<weights, from_scratch, fe_trainable, classifier_trainable, active,
                   method, fine_tune_at, pre_config, fitting, fit_started, fit_config,
                   epoch, raised, call_training, fe_training>>
    /\ UNCHANGED notR

\* compile_and_fit(...) is entered: the model is compiled with the configuration
\* in force
compile_and_fit ==
    /\ Stmt = "compile_and_fit"
    /\ ~fitting
    /\ fitting' = TRUE
    /\ fit_started' = TRUE
    /\ fit_config' = Config
    /\ epoch' = 0
    /\ UNCHANGED <<weights, from_scratch, fe_trainable, layer_trainable,
                   classifier_trainable, active, method, ip, fine_tune_at, pre_config,
                   raised, call_training, fe_training>>
    /\ UNCHANGED notR

\* one epoch of the optimization loop: the framework calls the model with
\* training=True
FitEpoch ==
    /\ fitting
    /\ epoch < Epochs
    /\ epoch' = epoch + 1
    /\ call_training' = "True"
    /\ fe_training' = FeatureExtractorTraining(from_scratch, "True")
    /\ UNCHANGED <<weights, from_scratch, fe_trainable, layer_trainable,
                   classifier_trainable, active, method, ip, fine_tune_at, pre_config,
                   fitting, fit_started, fit_config, raised>>
    /\ UNCHANGED notR

\* compile_and_fit returns the history
FitReturn ==
    /\ fitting
    /\ epoch = Epochs
    /\ fitting' = FALSE
    /\ ip' = ip + 1
    /\ UNCHANGED <<weights, from_scratch, fe_trainable, layer_trainable,
                   classifier_trainable, active, method, fine_tune_at, pre_config,
                   fit_started, fit_config, epoch, raised, call_training, fe_training>>
    /\ UNCHANGED notR

\* the method returns to its caller
Return ==
    /\ active
    /\ Stmt = "return"
    /\ active' = FALSE
    /\ UNCHANGED <<weights, from_scratch, fe_trainable, layer_trainable,
                   classifier_trainable, method, ip, fine_tune_at, pre_config, fitting,
                   fit_started, fit_config, epoch, raised, call_training, fe_training>>
    /\ UNCHANGED notR

RNext ==
    \/ \E training \in TrainingArgs : call(training)
    \/ fit_linear_classifier
    \/ \E at \in FineTuneAtArgs : fine_tune(at)
    \/ Freeze
    \/ CheckFineTuneAt
    \/ Unfreeze
    \/ FreezeBottom
    \/ compile_and_fit
    \/ FitEpoch
    \/ FitReturn
    \/ Return

(***************************************************************************)
(* COVIDNet (custom network) and get_model                                 *)
(***************************************************************************)
\* largest n_pepx a _COVIDNetBlock is constructed with on its own
MaxPepx == 5
\* largest class count of a dataset, and largest batch size of a forward pass
MaxClasses == 4
MaxBatch == 3

\* self._image_shape = (224, 224, 3)
ImageSize == 224
ImageChannels == 3
\* Dense(3, activation='softmax'): the last layer of COVIDNet's classifier
COVIDNetOutputUnits == 3
\* Dense(1024, activation='relu')
COVIDNetHiddenUnits == 1024
\* Conv2D(64, 7, strides=(2, 2), padding='same')
InitialConvChannels == 64

Layer(type, units, n) == [type |-> type, units |-> units, n |-> n]

Shape(h, w, c) == [h |-> h, w |-> w, c |-> c]

\* a strided layer with padding='same': ceil(size / stride)
SamePadding(size, stride) == (size + stride - 1) \div stride

\* PEPXBlock(channels): spatial dimensions preserved, channels at output equal
\* to the configured width
PEPXBlock(channels, x) == Shape(x.h, x.w, channels)

\* Sequential([Conv2D(channels, 1), BatchNormalization(), ReLU()])
BranchConv(channels, x) == Shape(x.h, x.w, channels)

\* MaxPool2D(pool_size=(3, 3), strides=(2, 2), padding='same')
Pooling(x) == Shape(SamePadding(x.h, 2), SamePadding(x.w, 2), x.c)

\* the state of _COVIDNetBlock.call: the tensor x, the operations applied so far
\* (each PEPX unit and each sum by its index), and whether add() raised
BlockState(x, trace, exc) == [x |-> x, trace |-> trace, raised |-> exc]

\* add([x, branch_conv_output]): the operands must have the same shape
Add(st, branch, i) ==
    IF st.x = branch
    THEN BlockState(st.x, Append(st.trace, <<"add", i>>), st.raised)
    ELSE BlockState(st.x, st.trace, "ValueError")

\* mutant: the shortcut is summed once, after the last unit
RECURSIVE PepxLoop_AddOnce(_, _, _, _, _)
PepxLoop_AddOnce(channels, n_pepx, branch, i, st) ==
    IF i >= n_pepx \/ st.raised # "none" THEN st
    ELSE PepxLoop_AddOnce(channels, n_pepx, branch, i + 1,
            IF i = n_pepx - 1
            THEN Add(BlockState(PEPXBlock(channels, st.x),
                                Append(st.trace, <<"pepx", i>>), st.raised), branch, i)
            ELSE BlockState(PEPXBlock(channels, st.x),
                            Append(st.trace, <<"pepx", i>>), st.raised))

\* for i in range(len(self._branch_pepx)): x = pepx[i](x); x = add([x, branch])
RECURSIVE PepxLoop(_, _, _, _, _)
PepxLoop(channels, n_pepx, branch, i, st) ==
    IF i >= n_pepx \/ st.raised # "none" THEN st
    ELSE PepxLoop(channels, n_pepx, branch, i + 1,
                  Add(BlockState(PEPXBlock(channels, st.x),
                                 Append(st.trace, <<"pepx", i>>), st.raised),
                      branch, i))

\* the main branch of _COVIDNetBlock.call, from x = inputs
MainBranch(channels, n_pepx, branch, inputs) ==
    PepxLoop(channels, n_pepx, branch, 0,
             BlockState(inputs, <<<<"branch_conv", 0>>>>, "none"))

\* _COVIDNetBlock(channels, n_pepx).call(inputs)
COVIDNetBlockCall(channels, n_pepx, inputs) ==
    LET st == MainBranch(channels, n_pepx, BranchConv(channels, inputs), inputs)
    IN  IF st.raised # "none" THEN st
        ELSE BlockState(Pooling(st.x), Append(st.trace, <<"pooling", 0>>), "none")

\* one layer of a Sequential applied to a tensor of shape x
ApplyLayer(l, x) ==
    IF l.type = "Rescaling" THEN x
    ELSE IF l.type = "conv_initial"
         THEN Shape(SamePadding(x.h, 2), SamePadding(x.w, 2), l.units)
    ELSE IF l.type = "_COVIDNetBlock" THEN COVIDNetBlockCall(l.units, l.n, x).x
    ELSE IF l.type = "ResNet50V2" THEN Shape(7, 7, l.units)
    ELSE IF l.type = "GlobalAveragePooling2D" THEN Shape(1, 1, x.c)
    ELSE IF l.type = "Flatten" THEN Shape(1, 1, x.h * x.w * x.c)
    ELSE Shape(1, 1, l.units)

\* Sequential.call: the layers applied in order
RECURSIVE ApplyLayers(_, _)
ApplyLayers(layers, x) ==
    IF layers = << >> THEN x
    ELSE ApplyLayers(Tail(layers), ApplyLayer(Head(layers), x))

\* COVIDNet._feature_extractor
COVIDNetFeatureExtractor ==
    << Layer("Rescaling", 0, 0),
       Layer("conv_initial", InitialConvChannels, 7),
       Layer("_COVIDNetBlock", 256, 3),
       Layer("_COVIDNetBlock", 512, 4),
       Layer("_COVIDNetBlock", 1024, 5),
       Layer("_COVIDNetBlock", 2048, 3) >>

\* COVIDNet._classifier
COVIDNetClassifier ==
    << Layer("Flatten", 0, 0),
       Layer("Dense", COVIDNetHiddenUnits, 0),
       Layer("Dense", COVIDNetHiddenUnits, 0),
       Layer("Dense", COVIDNetOutputUnits, 0) >>

\* a model object: its fields, and the exception its constructor raised
Model(kind, name, scratch, fe, cls, exc) ==
    [kind |-> kind, name |-> name, from_scratch |-> scratch, feature_extractor |-> fe,
     classifier |-> cls, raised |-> exc]

NoModel == Model("none", "none", FALSE, << >>, << >>, "none")

\* mutant: the unsupported weights are rejected at the end of the constructor
COVIDNetNew_LateCheck(name, w) ==
    IF w # "None"
    THEN Model("COVIDNet", name, w = "None", COVIDNetFeatureExtractor,
               COVIDNetClassifier, "NotImplementedError")
    ELSE Model("COVIDNet", name, w = "None", COVIDNetFeatureExtractor,
               COVIDNetClassifier, "none")

\* COVIDNet.__init__(name, weights)
COVIDNetNew(name, w) ==
    IF w # "None"
    THEN Model("COVIDNet", name, w = "None", << >>, << >>, "NotImplementedError")
    ELSE Model("COVIDNet", name, w = "None", COVIDNetFeatureExtractor,
               COVIDNetClassifier, "none")

\* ResNet50.__init__(n_classes, name, weights)
ResNet50New(n, name, w) ==
    Model("ResNet50", name, FromScratch(w),
          << Layer("Rescaling", 0, 0), Layer("ResNet50V2", 2048, 0) >>,
          << Layer("GlobalAveragePooling2D", 0, 0), Layer("Dense", n, 0) >>,
          "none")

\* get_model(architecture, model_path, dataset_info) up to the construction:
\* COVIDNet receives n_classes as its first positional parameter, name
GetModel(arch, n) ==
    IF arch = "resnet50" THEN ResNet50New(n, "resnet50", "None")
    ELSE IF arch = "covidnet" THEN COVIDNetNew(n, "None")
    ELSE Model("none", "none", FALSE, << >>, << >>, "ValueError")

\* the shape of the output of Model.call for a batch of N images
OutputShape(m, N) ==
    <<N, ApplyLayers(m.classifier,
                     ApplyLayers(m.feature_extractor,
                                 Shape(ImageSize, ImageSize, ImageChannels))).c>>

\* COVIDNet.call: feature_extractor(x, training=self._from_scratch)
COVIDNetFeatureExtractorTraining(scratch, training) ==
    IF scratch THEN "True" ELSE "False"

Architectures == {"resnet50", "covidnet", "vgg16"}
BlockWidths == {256, 512, 1024, 2048}
BlockInputChannels == {InitialConvChannels, 256, 512, 1024, 2048}

NoBlock == [channels |-> 0, n_pepx |-> 0, inputs |-> Shape(0, 0, 0),
            result |-> BlockState(Shape(0, 0, 0), << >>, "none")]

CInit ==
    /\ model = NoModel
    /\ via = "none"
    /\ weights_arg = "none"
    /\ architecture = "none"
    /\ n_classes = 0
    /\ weights_loaded = FALSE
    /\ batch = 0
    /\ output_shape = << >>
    /\ m_call_training = "unset"
    /\ m_fe_training = "unset"
    /\ block = NoBlock

BlockInputSizes == {112, 14, 7}
ModelPaths == {"None", "path"}

\* COVIDNet(name=name, weights=w), constructed directly
NewCOVIDNet(name, w) ==
    /\ via = "none"
    /\ via' = "COVIDNet"
    /\ weights_arg' = w
    /\ model' = COVIDNetNew(name, w)
    /\ UNCHANGED <<architecture, n_classes, weights_loaded, batch, output_shape,
                   m_call_training, m_fe_training, block>>
    /\ UNCHANGED notC

\* get_model(architecture, model_path, dataset_info)
get_model(arch, model_path, n) ==
    /\ via = "none"
    /\ via' = "get_model"
    /\ architecture' = arch
    /\ n_classes' = n
    /\ weights_arg' = "None"
    /\ model' = GetModel(arch, n)
    /\ weights_loaded' = (GetModel(arch, n).raised = "none" /\ model_path # "None")
    /\ UNCHANGED <<batch, output_shape, m_call_training, m_fe_training, block>>
    /\ UNCHANGED notC

\* model(inputs, training=training) on a batch of N images
forward(N, training) ==
    /\ model.kind # "none"
    /\ model.raised = "none"
    /\ batch' = N
    /\ m_call_training' = training
    /\ m_fe_training' =
          IF model.kind = "COVIDNet"
          THEN COVIDNetFeatureExtractorTraining(model.from_scratch, training)
          ELSE FeatureExtractorTraining(model.from_scratch, training)
    /\ output_shape' = OutputShape(model, N)
    /\ UNCHANGED <<model, via, weights_arg, architecture, n_classes, weights_loaded,
                   block>>
    /\ UNCHANGED notC

\* _COVIDNetBlock(channels, n_pepx)(inputs) with inputs of size x size x in_c
block_call(channels, n_pepx, size, in_c) ==
    /\ block' = [channels |-> channels, n_pepx |-> n_pepx,
                 inputs |-> Shape(size, size, in_c),
                 result |-> COVIDNetBlockCall(channels, n_pepx, Shape(size, size, in_c))]
    /\ UNCHANGED <<model, via, weights_arg, architecture, n_classes, weights_loaded,
                   batch, output_shape, m_call_training, m_fe_training>>
    /\ UNCHANGED notC

CNext ==
    \/ \E w \in WeightsArgs : NewCOVIDNet("covidnet", w)
    \/ \E arch \in Architectures, p \in ModelPaths, n \in 1 .. MaxClasses :
          get_model(arch, p, n)
    \/ \E N \in 1 .. MaxBatch, training \in TrainingArgs : forward(N, training)

BNext ==
    \/ \E channels \in BlockWidths, n_pepx \in 0 .. MaxPepx,
          size \in BlockInputSizes, in_c \in BlockInputChannels :
          block_call(channels, n_pepx, size, in_c)

(***************************************************************************)
(* get_class_weights                                                       *)
(***************************************************************************)
\* largest number of images of a training set
MaxImages == 5

\* a rational number num / den
Frac(num, den) == [num |-> num, den |-> den]

FracMul(a, b) == Frac(a.num * b.num, a.den * b.den)

FracAdd(a, b) == Frac(a.num * b.den + b.num * a.den, a.den * b.den)

FracEq(a, b) == a.num * b.den = b.num * a.den

\* len(np.where(train_ds_info['labels'] == class_label)[0])
CountLabel(labels, class_label) ==
    Cardinality({i \in DOMAIN labels : labels[i] = class_label})

\* mutant: the weight is not scaled by total / n_classes
ClassWeight_NoScale(n, total, k) == Frac(1, n)

\* (1 / n) * (total / n_classes)
ClassWeight(n, total, k) == FracMul(Frac(1, n), Frac(total, k))

\* get_class_weights(train_ds_info): 1 / n raises ZeroDivisionError for a class
\* without images
GetClassWeights(info) ==
    IF \E l \in info.class_labels : CountLabel(info.labels, l) = 0
    THEN [raised |-> "ZeroDivisionError", class_weights |-> << >>]
    ELSE [raised |-> "none",
          class_weights |->
              [l \in info.class_labels |->
                  ClassWeight(CountLabel(info.labels, l), info.n_images,
                              info.n_classes)]]

\* the metadata image_dataset_from_directory returns for k classes and the
\* given per-image labels
DatasetInfo(k, labels) ==
    [n_images |-> Len(labels), n_classes |-> k, class_labels |-> 0 .. (k - 1),
     labels |-> labels]

NoInfo == DatasetInfo(0, << >>)

LabelSeqs(k) == UNION {[1 .. n -> 0 .. (k - 1)] : n \in 0 .. MaxImages}

WInit ==
    /\ train_ds_info = NoInfo
    /\ class_weights = << >>
    /\ w_raised = "none"
    /\ w_done = FALSE

\* the training sets get_class_weights is applied to
WInitInputs ==
    /\ \E k \in 1 .. MaxClasses :
          train_ds_info \in {DatasetInfo(k, labels) : labels \in LabelSeqs(k)}
    /\ class_weights = << >>
    /\ w_raised = "none"
    /\ w_done = FALSE

\* class_weights = get_class_weights(train_ds_info)
get_class_weights ==
    /\ ~w_done
    /\ w_done' = TRUE
    /\ class_weights' = GetClassWeights(train_ds_info).class_weights
    /\ w_raised' = GetClassWeights(train_ds_info).raised
    /\ UNCHANGED train_ds_info
    /\ UNCHANGED notW

WNext == get_class_weights

(***************************************************************************)
(* scripts/pretrain.py main                                                *)
(***************************************************************************)
Root == "root"
ModelsPath == "root/models"
CheckpointsPath == "root/checkpoints"
PlotsPath == "root/training"
LogsPath == "root/logs"
PretrainedPath == "root/models/model_pretrained"
Paths == {Root, ModelsPath, CheckpointsPath, PlotsPath, LogsPath, PretrainedPath}

Parent(path) == IF path = PretrainedPath THEN ModelsPath ELSE Root

\* the metrics of get_metrics, and the loss
Metrics == {"loss", "accuracy", "auc", "f1-score"}

EmptyTree == [path \in Paths |-> "absent"]

\* the output path as a run can find it: absent, a regular file, an empty
\* directory, or the tree an earlier run left
OutputTrees ==
    { EmptyTree,
      [EmptyTree EXCEPT ![Root] = "old"],
      [EmptyTree EXCEPT ![Root] = "dir"],
      [path \in Paths |-> IF path = PretrainedPath THEN "old" ELSE "dir"] }

\* the training sets a run can find under the dataset path
Datasets == {"balanced", "empty_class", "missing"}

DatasetOf(d) ==
    IF d = "balanced" THEN DatasetInfo(3, <<0, 1, 1, 2>>)
    ELSE IF d = "empty_class" THEN DatasetInfo(3, <<0, 0, 1>>)
    ELSE NoInfo

\* mutant: the check looks for a regular file
IsDir_IsFile(tree, path) == tree[path] \in {"old", "new"}

\* models_path.is_dir()
IsDir(tree, path) == tree[path] = "dir"

\* the result of a filesystem operation: the tree after it and the exception raised
FsResult(tree, exc) == [fs |-> tree, raised |-> exc]

\* Path.mkdir(parents=False): the parent of path is the root or the root itself
\* exists
Mkdir(tree, path) ==
    IF tree[path] # "absent" THEN FsResult(tree, "FileExistsError")
    ELSE IF path # Root /\ tree[Parent(path)] = "absent"
         THEN FsResult(tree, "FileNotFoundError")
    ELSE IF path # Root /\ tree[Parent(path)] # "dir"
         THEN FsResult(tree, "NotADirectoryError")
    ELSE FsResult([tree EXCEPT ![path] = "dir"], "none")

\* Path.mkdir(parents=True): a missing parent is created first
MkdirParents(tree, path) ==
    IF Mkdir(tree, path).raised = "FileNotFoundError"
    THEN Mkdir([tree EXCEPT ![Parent(path)] = "dir"], path)
    ELSE Mkdir(tree, path)

\* models_path.mkdir(parents=True); checkpoints_path.mkdir(); plots_path.mkdir()
MakeDirs(tree) ==
    LET a == MkdirParents(tree, ModelsPath)
        b == Mkdir(a.fs, CheckpointsPath)
        c == Mkdir(b.fs, PlotsPath)
    IN  IF a.raised # "none" THEN a
        ELSE IF b.raised # "none" THEN b
        ELSE c

MInit ==
    /\ args = [architecture |-> "resnet50", class_weights |-> FALSE,
               load_model |-> "None"]
    /\ data = "balanced"
    /\ fs = EmptyTree
    /\ fs0 = EmptyTree
    /\ pc = "idle"
    /\ m_raised = "none"
    /\ datasets_loaded = FALSE
    /\ main_epoch = 0
    /\ checkpoints = {}
    /\ plots = {}

\* a run of main: the command line, the dataset and the output tree it finds
MInitInputs ==
    /\ args \in [architecture : Architectures, class_weights : BOOLEAN,
                 load_model : ModelPaths]
    /\ data \in Datasets
    /\ fs \in OutputTrees
    /\ fs0 = fs
    /\ pc = "check"
    /\ m_raised = "none"
    /\ datasets_loaded = FALSE
    /\ main_epoch = 0
    /\ checkpoints = {}
    /\ plots = {}

\* the statement that raises ends the run
Fail(exc) ==
    /\ pc' = "failed"
    /\ m_raised' = exc

\* if models_path.is_dir(): raise FileExistsError(...)
CheckOutputPath ==
    /\ pc = "check"
    /\ IF IsDir(fs, Root) THEN Fail("FileExistsError")
       ELSE pc' = "mkdir" /\ m_raised' = m_raised
    /\ UNCHANGED <<args, data, fs, fs0, datasets_loaded, main_epoch, checkpoints, plots>>
    /\ UNCHANGED <<pvars, rvars, cvars, wvars>>

\* the three mkdir calls
MakeDirectories ==
    /\ pc = "mkdir"
    /\ fs' = MakeDirs(fs).fs
    /\ IF MakeDirs(fs).raised # "none" THEN Fail(MakeDirs(fs).raised)
       ELSE pc' = "load" /\ m_raised' = m_raised
    /\ UNCHANGED <<args, data, fs0, datasets_loaded, main_epoch, checkpoints, plots>>
    /\ UNCHANGED <<pvars, rvars, cvars, wvars>>

\* train_ds, train_ds_info = image_dataset_from_directory(...); val_ds likewise
LoadDatasets ==
    /\ pc = "load"
    /\ datasets_loaded' = TRUE
    /\ IF data = "missing"
       THEN Fail("FileNotFoundError") /\ UNCHANGED train_ds_info
       ELSE pc' = "prepare" /\ m_raised' = m_raised /\ train_ds_info' = DatasetOf(data)
    /\ UNCHANGED <<args, data, fs, fs0, main_epoch, checkpoints, plots>>
    /\ UNCHANGED <<class_weights, w_raised, w_done>>
    /\ UNCHANGED <<pvars, rvars, cvars>>

\* loss, metrics, callbacks; class_weights = get_class_weights(...) if
\* args.class_weights else None
PrepareTraining ==
    /\ pc = "prepare"
    /\ IF args.class_weights
       THEN /\ w_done' = TRUE
            /\ class_weights' = GetClassWeights(train_ds_info).class_weights
            /\ w_raised' = GetClassWeights(train_ds_info).raised
            /\ IF GetClassWeights(train_ds_info).raised # "none"
               THEN Fail(GetClassWeights(train_ds_info).raised)
               ELSE pc' = "get_model" /\ m_raised' = m_raised
       ELSE /\ UNCHANGED <<class_weights, w_raised, w_done>>
            /\ pc' = "get_model" /\ m_raised' = m_raised
    /\ UNCHANGED <<args, data, fs, fs0, datasets_loaded, main_epoch, checkpoints, plots>>
    /\ UNCHANGED train_ds_info
    /\ UNCHANGED <<pvars, rvars>>
    /\ UNCHANGED cvars

\* model = get_model(args.architecture, args.load_model, train_ds_info)
BuildModel ==
    /\ pc = "get_model"
    /\ via' = "get_model"
    /\ architecture' = args.architecture
    /\ n_classes' = train_ds_info.n_classes
    /\ weights_arg' = "None"
    /\ model' = GetModel(args.architecture, train_ds_info.n_classes)
    /\ weights_loaded' = (GetModel(args.architecture, train_ds_info.n_classes).raised
                             = "none" /\ args.load_model # "None")
    /\ IF GetModel(args.architecture, train_ds_info.n_classes).raised # "none"
       THEN Fail(GetModel(args.architecture, train_ds_info.n_classes).raised)
       ELSE pc' = "fit" /\ m_raised' = m_raised
    /\ UNCHANGED <<batch, output_shape, m_call_training, m_fe_training, block>>
    /\ UNCHANGED <<args, data, fs, fs0, datasets_loaded, main_epoch, checkpoints, plots>>
    /\ UNCHANGED <<pvars, rvars, wvars>>

\* one epoch of model.compile_and_fit(...): ModelCheckpoint writes the epoch's
\* weights, TensorBoard its logs
TrainEpoch ==
    /\ pc = "fit"
    /\ main_epoch < Epochs
    /\ main_epoch' = main_epoch + 1
    /\ checkpoints' = checkpoints \cup {main_epoch + 1}
    /\ fs' = [fs EXCEPT ![LogsPath] = "dir"]
    /\ UNCHANGED <<args, data, fs0, pc, m_raised, datasets_loaded, plots>>
    /\ UNCHANGED <<pvars, rvars, cvars, wvars>>

\* compile_and_fit returns the history
TrainingDone ==
    /\ pc = "fit"
    /\ main_epoch = Epochs
    /\ pc' = "plot"
    /\ UNCHANGED <<args, data, fs, fs0, m_raised, datasets_loaded, main_epoch,
                   checkpoints, plots>>
    /\ UNCHANGED <<pvars, rvars, cvars, wvars>>

\* plot_learning_curves(history, save_path=plots_path)
PlotLearningCurves ==
    /\ pc = "plot"
    /\ plots' = {metric \in Metrics : TRUE}
    /\ pc' = "replace"
    /\ UNCHANGED <<args, data, fs, fs0, m_raised, datasets_loaded, main_epoch,
                   checkpoints>>
    /\ UNCHANGED <<pvars, rvars, cvars, wvars>>

\* model.classifier[-1] = Dense(3): a Sequential has no item assignment
ReplaceLastLayer ==
    /\ pc = "replace"
    /\ Fail("TypeError")
    /\ UNCHANGED <<args, data, fs, fs0, datasets_loaded, main_epoch, checkpoints, plots>>
    /\ UNCHANGED <<pvars, rvars, cvars, wvars>>

MNext ==
    \/ CheckOutputPath
    \/ MakeDirectories
    \/ LoadDatasets
    \/ PrepareTraining
    \/ BuildModel
    \/ TrainEpoch
    \/ TrainingDone
    \/ PlotLearningCurves
    \/ ReplaceLastLayer

(***************************************************************************)
(* covid19/metrics/training.py plot_learning_curves                        *)
(***************************************************************************)
\* largest number of epochs of a History, and of calls made with one pair of
\* arguments
MaxHist == 2
MaxPlotCalls == 2

\* the keys of history.history: a metric and its validation variant
HistoryKeys == {"loss", "val_loss"}

\* the values a metric takes
MetricValues == {0, 1}

\* metric.startswith('val_')
StartsWithVal(metric) == metric = "val_loss"

\* val_metric = 'val_' + metric
ValMetric(metric) == IF metric = "loss" THEN "val_loss" ELSE "val_val_loss"

\* the state of the loop: history.history and the curves plotted so far
PlotState(h, c) == [history |-> h, curves |-> c]

\* one iteration of the loop, for a metric that is not a validation metric:
\* train_values and val_values are the lists of history.history themselves, and
\* += extends them in place
PlotMetric(st, metric, given, hft, epochs) ==
    LET train_values == IF given THEN st.history[metric] \o hft[metric]
                        ELSE st.history[metric]
        val_values == IF given
                      THEN st.history[ValMetric(metric)] \o hft[ValMetric(metric)]
                      ELSE st.history[ValMetric(metric)]
    IN  PlotState([st.history EXCEPT ![metric] = train_values,
                                     ![ValMetric(metric)] = val_values],
                  [st.curves EXCEPT ![metric] =
                      [training |-> train_values, validation |-> val_values,
                       marker |-> IF given THEN epochs ELSE 0 - 1]])

\* for metric in history.history.keys(): ...
RECURSIVE PlotLoop(_, _, _, _, _)
PlotLoop(st, todo, given, hft, epochs) ==
    IF todo = {} THEN st
    ELSE LET metric == CHOOSE k \in todo : TRUE
         IN  PlotLoop(IF StartsWithVal(metric) THEN st
                      ELSE PlotMetric(st, metric, given, hft, epochs),
                      todo \ {metric}, given, hft, epochs)

NoCurve == [training |-> << >>, validation |-> << >>, marker |-> 0 - 1]

NoCurves == [k \in {m \in HistoryKeys : ~StartsWithVal(m)} |-> NoCurve]

\* epochs = history.epoch[-1]
LastEpoch(epochs) == epochs[Len(epochs)]

\* the histories of n epochs
Histories(n) == [HistoryKeys -> [1 .. n -> MetricValues]]

EmptyHistory == [k \in HistoryKeys |-> << >>]

PInit ==
    /\ history = EmptyHistory
    /\ history_epoch = << >>
    /\ history_ft = EmptyHistory
    /\ ft_given = FALSE
    /\ save_path = "None"
    /\ history0 = EmptyHistory
    /\ history_ft0 = EmptyHistory
    /\ curves = NoCurves
    /\ first_curves = NoCurves
    /\ n_plots = 0
    /\ p_raised = "none"

\* the arguments of plot_learning_curves: a History of 1..MaxHist epochs, and
\* either no history_ft or one of 1..MaxHist epochs
PInitInputs ==
    /\ \E n \in 1 .. MaxHist :
          /\ history \in Histories(n)
          /\ history_epoch = [i \in 1 .. n |-> i - 1]
    /\ ft_given \in BOOLEAN
    /\ IF ft_given THEN \E n \in 1 .. MaxHist : history_ft \in Histories(n)
       ELSE history_ft = EmptyHistory
    /\ save_path \in {"None", "path"}
    /\ history0 = history
    /\ history_ft0 = history_ft
    /\ curves = NoCurves
    /\ first_curves = NoCurves
    /\ n_plots = 0
    /\ p_raised = "none"

\* plot_learning_curves(history, history_ft, save_path); Path(None) raises
\* TypeError before anything is read
plot_learning_curves ==
    /\ n_plots < MaxPlotCalls
    /\ n_plots' = n_plots + 1
    /\ IF save_path = "None"
       THEN /\ p_raised' = "TypeError"
            /\ UNCHANGED <<history, curves, first_curves>>
       ELSE LET st == PlotLoop(PlotState(history, NoCurves), DOMAIN history,
                               ft_given, history_ft, LastEpoch(history_epoch))
            IN  /\ p_raised' = "none"
                /\ history' = st.history
                /\ curves' = st.curves
                /\ first_curves' = IF n_plots = 0 THEN st.curves ELSE first_curves
    /\ UNCHANGED <<history_epoch, history_ft, ft_given, save_path, history0,
                   history_ft0>>
    /\ UNCHANGED notP

PNext == plot_learning_curves

vars == <<rvars, cvars, wvars, mvars, pvars>>

\* ResNet50 on its own
Init == RInit /\ CInit /\ WInit /\ MInit /\ PInit

Next == RNext

Spec == Init /\ [][Next]_vars

\* COVIDNet and get_model on their own
InitCovidNet == RInit /\ weights = "None" /\ CInit /\ WInit /\ MInit /\ PInit

SpecCovidNet == InitCovidNet /\ [][CNext]_vars

\* _COVIDNetBlock on its own
SpecBlock == InitCovidNet /\ [][BNext]_vars

\* get_class_weights applied to every training set within the bounds
InitWeights == RInit /\ weights = "None" /\ CInit /\ WInitInputs /\ MInit /\ PInit

SpecWeights == InitWeights /\ [][WNext]_vars

\* a run of scripts/pretrain.py
InitMain == RInit /\ weights = "None" /\ CInit /\ WInit /\ MInitInputs /\ PInit

SpecMain == InitMain /\ [][MNext]_vars

\* plot_learning_curves called repeatedly with the same arguments
InitPlot == RInit /\ weights = "None" /\ CInit /\ WInit /\ MInit /\ PInitInputs

SpecPlot == InitPlot /\ [][PNext]_vars

(***************************************************************************)
(* Properties of ResNet50                                                  *)
(***************************************************************************)
\* a call() has been made on the model
Called == call_training # "unset"

\* the method has returned normally
Returned(m) == method = m /\ ~active /\ raised = "none"

AllFrozen == ~fe_trainable /\ \A i \in LayerIdx : ~layer_trainable[i]

\* C1: a model constructed from pretrained weights (weights is not None) runs
\* its feature extractor with training=False in every forward pass, whatever
\* training flag the caller passes to call().
C1_PretrainedRunsInInferenceMode ==
    (weights # "None" /\ Called) => fe_training = "False"

\* C2: after fine_tune returns with split index m, 0 <= m <= number of backbone
\* layers, exactly the backbone layers with index >= m are trainable, the layers
\* with index < m are frozen and the classifier head is trainable, whatever the
\* freeze state before the call.
C2_FineTuneSplit ==
    (Returned("fine_tune") /\ fine_tune_at \in 0 .. NLayers) =>
        /\ fe_trainable
        /\ \A i \in LayerIdx : layer_trainable[i] <=> (i >= fine_tune_at)
        /\ classifier_trainable

\* C2 witness: fine_tune returned with a split inside the backbone, entered from
\* the fully frozen state fit_linear_classifier leaves.
C2_Witness ==
    /\ Returned("fine_tune")
    /\ fine_tune_at = 1
    /\ ~pre_config.fe
    /\ layer_trainable[1] /\ ~layer_trainable[0]

\* C3: once fit_linear_classifier has frozen the backbone (from the start of its
\* fit on), no backbone layer is trainable and the classifier head is trainable,
\* whatever the freeze state before the call.
C3_LinearProbeFreezesBackbone ==
    (method = "fit_linear_classifier" /\ fit_started) =>
        AllFrozen /\ classifier_trainable

\* C3 witness: fit_linear_classifier returned after being entered from a state
\* in which an earlier fine_tune had left part of the backbone trainable.
C3_Witness ==
    /\ Returned("fit_linear_classifier")
    /\ fit_started
    /\ pre_config.fe /\ pre_config.layers[1] /\ ~pre_config.layers[0]
    /\ AllFrozen

\* C4: fine_tune with a split index greater than the number of backbone layers
\* raises ValueError as its first effect: the trainable status of every layer is
\* the one from before the call and compile_and_fit is not invoked.
C4_TooBigIndexRejected ==
    (method = "fine_tune" /\ fine_tune_at > NLayers) =>
        /\ Config = pre_config
        /\ ~fit_started /\ ~fitting
        /\ active => Stmt = "check"
        /\ ~active => raised = "ValueError"

\* C4 witness: the ValueError was raised on a model whose backbone an earlier
\* fine_tune had partly unfrozen.
C4_Witness ==
    /\ method = "fine_tune" /\ fine_tune_at > NLayers
    /\ raised = "ValueError" /\ ~active
    /\ layer_trainable[1] /\ ~layer_trainable[0]

\* C5: one freeze configuration is in force for a whole compile_and_fit run: from
\* the moment compile_and_fit starts, through every epoch and up to the return of
\* the method that invoked it, the trainable status of every layer is the one
\* compile_and_fit started with (all changes were made before it started).
C5_OneConfigPerFit ==
    fit_started => Config = fit_config

\* C5 witness: fine_tune returned after a complete fit under a configuration that
\* differs from the one the method was entered with.
C5_Witness ==
    /\ Returned("fine_tune") /\ fit_started /\ epoch = Epochs
    /\ Config # pre_config
    /\ ~layer_trainable[0] /\ layer_trainable[1]

(***************************************************************************)
(* Properties of COVIDNet and get_model                                    *)
(***************************************************************************)
\* C6: COVIDNet constructed with weights that are not None raises
\* NotImplementedError before its feature extractor and classifier are built;
\* constructed with weights=None it raises nothing and has both sub-networks.
C6_PresetWeightsRejected ==
    (model.kind = "COVIDNet") =>
        IF weights_arg # "None"
        THEN /\ model.raised = "NotImplementedError"
             /\ model.feature_extractor = << >>
             /\ model.classifier = << >>
        ELSE /\ model.raised = "none"
             /\ model.feature_extractor # << >>
             /\ model.classifier # << >>

\* C6 witness: a COVIDNet asked for the imagenet weights raised the error with no
\* sub-network built.
C6_Witness ==
    /\ via = "COVIDNet" /\ weights_arg = "imagenet"
    /\ model.raised = "NotImplementedError"
    /\ model.feature_extractor = << >>

\* C7: the COVIDNet built by get_model for a dataset of n_classes classes maps a
\* batch of N images to an output of shape (N, n_classes).
C7_OutputSizedToClassCount ==
    (via = "get_model" /\ architecture = "covidnet" /\ output_shape # << >>) =>
        output_shape = <<batch, n_classes>>

\* the operations of a block of n PEPX units: the shortcut convolution, then each
\* unit followed by its sum with the shortcut, then one pooling
ExpectedTrace(n) ==
    [k \in 1 .. (2 * n + 2) |->
        IF k = 1 THEN <<"branch_conv", 0>>
        ELSE IF k = 2 * n + 2 THEN <<"pooling", 0>>
        ELSE IF k % 2 = 0 THEN <<"pepx", (k - 2) \div 2>>
        ELSE <<"add", (k - 3) \div 2>>]

BlockAsClaimed ==
    /\ block.result.raised = "none"
    /\ block.result.x.c = block.channels
    /\ block.result.trace = ExpectedTrace(block.n_pepx)

\* C8 as stated: for every width, every n_pepx the block can be constructed with
\* and every input channel count, the output has the configured width, every PEPX
\* unit's output is summed with the shortcut before the next unit, and pooling is
\* applied once after the last unit.
C8_Original ==
    (block.channels # 0) => BlockAsClaimed

\* C8 amended: the same for every block constructed with at least one PEPX unit;
\* a block with no unit returns its pooled input, with the input's channel count.
C8_BlockOutputWidth ==
    (block.channels # 0) =>
        /\ block.n_pepx >= 1 => BlockAsClaimed
        /\ block.n_pepx = 0 => block.result.x.c = block.inputs.c
        /\ block.result.x.h = SamePadding(block.inputs.h, 2)

\* C8 witness: a block of several units called on an input whose channel count
\* differs from its width.
C8_Witness ==
    /\ block.channels = 512 /\ block.n_pepx = 4
    /\ block.inputs.c = 256
    /\ block.result.x = Shape(56, 56, 512)
    /\ Len(block.result.trace) = 10

(***************************************************************************)
(* Properties of get_class_weights                                         *)
(***************************************************************************)
\* the sum over the classes of weight * count
RECURSIVE WeightedCount(_, _, _)
WeightedCount(cw, info, todo) ==
    IF todo = {} THEN Frac(0, 1)
    ELSE LET l == CHOOSE x \in todo : TRUE
         IN  FracAdd(Frac(cw[l].num * CountLabel(info.labels, l), cw[l].den),
                     WeightedCount(cw, info, todo \ {l}))

\* C9: for class counts c_1..c_k and total T, get_class_weights returns for every
\* class index i the weight (1/c_i)*(T/k): weight_i * c_i * k = T, the sum over
\* the classes of weight_i * c_i is T, and every weight is positive; counts 10,
\* 100, 50 with T = 160, k = 3 give 160/30, 160/300, 160/150.  (The function
\* returns exactly when every class has an image.)
C9_ClassWeights ==
    /\ w_done =>
          (w_raised = "none" <=>
              \A l \in train_ds_info.class_labels :
                  CountLabel(train_ds_info.labels, l) >= 1)
    /\ (w_done /\ w_raised = "none") =>
          /\ DOMAIN class_weights = train_ds_info.class_labels
          /\ \A l \in train_ds_info.class_labels :
                LET c == CountLabel(train_ds_info.labels, l)
                    w == class_weights[l]
                IN  /\ FracEq(w, Frac(train_ds_info.n_images,
                                      c * train_ds_info.n_classes))
                    /\ w.num * c * train_ds_info.n_classes
                          = train_ds_info.n_images * w.den
                    /\ w.num > 0 /\ w.den > 0
          /\ FracEq(WeightedCount(class_weights, train_ds_info,
                                  train_ds_info.class_labels),
                    Frac(train_ds_info.n_images, 1))
    /\ FracEq(ClassWeight(10, 160, 3), Frac(160, 30))
    /\ FracEq(ClassWeight(100, 160, 3), Frac(160, 300))
    /\ FracEq(ClassWeight(50, 160, 3), Frac(160, 150))

\* C9 witness: the weights of a skewed three-class training set (counts 1, 3, 1).
C9_Witness ==
    /\ w_done /\ w_raised = "none"
    /\ train_ds_info.n_classes = 3
    /\ CountLabel(train_ds_info.labels, 0) = 1
    /\ CountLabel(train_ds_info.labels, 1) = 3
    /\ CountLabel(train_ds_info.labels, 2) = 1
    /\ FracEq(class_weights[1], Frac(5, 9))

(***************************************************************************)
(* Properties of scripts/pretrain.py main                                  *)
(***************************************************************************)
\* C10: when the output directory exists at the start of the run, the run ends at
\* its first statement with FileExistsError: nothing under the path is created,
\* modified or overwritten, no dataset is loaded and no epoch runs.
C10_ExistingOutputRejected ==
    (fs0[Root] = "dir") =>
        /\ pc \in {"check", "failed"}
        /\ pc = "failed" => m_raised = "FileExistsError"
        /\ fs = fs0
        /\ checkpoints = {} /\ plots = {}
        /\ ~datasets_loaded
        /\ main_epoch = 0

\* C10 witness: a run ended by FileExistsError on the tree an earlier run left.
C10_Witness ==
    /\ fs0[Root] = "dir" /\ fs0[PretrainedPath] = "old"
    /\ pc = "failed" /\ m_raised = "FileExistsError"
    /\ fs[PretrainedPath] = "old"

\* the run has ended, by an exception or by returning
Terminated == pc \in {"failed", "done"}

\* C11: an architecture name other than 'resnet50' and 'covidnet' makes the run
\* fail with ValueError as its first effect: when the error is raised no output
\* directory has been created, no dataset loaded and no training step run.
C11_UnknownArchitectureFailsFirst ==
    (/\ args.architecture \notin {"resnet50", "covidnet"}
     /\ pc = "failed" /\ m_raised = "ValueError") =>
        /\ fs = fs0
        /\ ~datasets_loaded
        /\ main_epoch = 0

\* C12: a run whose training completed has, once it has ended, written the
\* learning curves under training/ and the final weights under models/, and the
\* output root holds models/, checkpoints/ and training/.
C12_WeightsPersisted ==
    (Terminated /\ main_epoch = Epochs /\ checkpoints # {}) =>
        /\ plots = Metrics
        /\ fs[PretrainedPath] = "new"
        /\ fs[ModelsPath] = "dir" /\ fs[CheckpointsPath] = "dir" /\ fs[PlotsPath] = "dir"

\* C13: a model built from scratch (weights=None), ResNet50 or COVIDNet, runs its
\* feature extractor with the training flag the caller passed to the forward pass.
C13_FromScratchFollowsCaller ==
    (model.kind # "none" /\ model.from_scratch /\ m_call_training \in {"True", "False"}) =>
        m_fe_training = m_call_training

(***************************************************************************)
(* Properties of plot_learning_curves                                      *)
(***************************************************************************)
\* C14: plot_learning_curves does not modify its arguments: after a call with
\* history_ft given, history.history still holds for every metric only the
\* values of the epochs before fine-tuning and history_ft.history is unchanged,
\* and a second call with the same arguments plots the same curves.
C14_ArgumentsUnchanged ==
    (ft_given /\ n_plots >= 1 /\ p_raised = "none") =>
        /\ history = history0
        /\ history_ft = history_ft0
        /\ curves = first_curves

====
